---- MODULE Spec2Model ----
(***************************************************************************)
(* A model of the Neo4j engine of library-cli                              *)
(* (src/library_cli/neo4j/neo4j_api.py): the graph the store holds, the    *)
(* Cypher statements the engine issues, each as one atomic store           *)
(* operation, and the handlers that issue them.                            *)
(*                                                                         *)
(* A graph g is a record:                                                  *)
(*   g.books    the isbn of every Book node                                *)
(*   g.quantity the quantity property of every Book node                   *)
(*   g.users    the username of every User node                            *)
(*   g.borrows  the Borrows relations: a function from the (username,      *)
(*              isbn) pairs that have one to its quantity property         *)
(*   g.rates    the Rates relations: for every pair the scores of its      *)
(*              relations, in creation order (CREATE never merges)         *)
(*   g.pages, g.title   the other properties of every Book node            *)
(*   g.phone, g.name    the other properties of every User node            *)
(*   g.authors  the name of every Author node                              *)
(*   g.authorOf the Author_Of relations: for every (isbn, name) pair the   *)
(*              number of relations between the two (CREATE never merges)  *)
(***************************************************************************)
EXTENDS Integers, Sequences, FiniteSets, TLC

\* ------------------------------------------------------------- bounds
USERS == {"alice", "bob"}
ISBNS == {"111", "222"}
SCORES == {2, 3, 4}
AUTHORS == {"A", "B", "C"}
\* the texts handed to edit_book and edit_user, character by character
TEXTS == {<<"0">>, <<"7">>, <<"-", "1">>, <<"1", "2">>, <<"a">>, <<"1", "a">>,
          <<"-">>}
\* the value lists handed to edit_book for another field than authors
VALUE_LISTS == {<<>>} \cup {<<t>> : t \in TEXTS} \cup {<<t, <<"0">>>> : t \in TEXTS}
\* the author lists handed to add_book and edit_book
AUTHOR_LISTS == {<<>>, <<"A">>, <<"B">>, <<"A", "B">>, <<"B", "C">>, <<"B", "B">>}
MaxStock == 2
MaxCalls == 5
MaxConcCalls == 4
MaxRateCalls == 3
MaxCatalogCalls == 4
MaxEditCalls == 2
MaxRemoveCalls == 3
MaxRecommendCalls == 6
MaxFailCalls == 3
MaxEngineCalls == 3
MaxShelfCalls == 3
PAGES == {1, 2}
MaxStatement == 7
NumProcs == 2

Procs == 1..NumProcs
Pairs == USERS \X ISBNS
Links == ISBNS \X AUTHORS
READERS == USERS \cup {"carol"}

VARIABLES
    store,      \* the graph held by Neo4j
    stock0,     \* ghost: the quantity every book was added with
    nOut,       \* ghost: successful check_out_book_for_user calls per isbn
    nRet,       \* ghost: successful return_book_for_user calls per isbn
    calls,      \* ghost: handler invocations started so far
    lastOp,     \* ghost: the handler that returned last, and what it returned
    pc,         \* per caller: the statement it issues next ("idle": no call)
    args,       \* per caller: the arguments of its call
    local,      \* per caller: the Borrows quantity return_book_for_user read
    found,      \* what the last query returned: a bag of isbn
    runs        \* ghost: the session.run calls the last edit call issued

vars == <<store, stock0, nOut, nRet, calls, lastOp, pc, args, local,
          found, runs>>

\* ------------------------------------------------------------ helpers
RECURSIVE SumOver(_, _)
SumOver(f, S) ==
    IF S = {} THEN 0
    ELSE LET x == CHOOSE y \in S : TRUE IN f[x] + SumOver(f, S \ {x})

\* The sum of the quantity of all Borrows relations on book isbn.
Borrowed(g, isbn) ==
    SumOver(g.borrows, {p \in DOMAIN g.borrows : p[2] = isbn})

NoArgs == [isbn |-> "", username |-> "", score |-> 0]
NoOp == [op |-> "none", isbn |-> "", username |-> "", score |-> 0,
         ok |-> FALSE, msg |-> "", reported |-> 0]

\* ------------------------------------------------- Cypher statements
\* MATCH (book:Book {isbn: {isbn}}) RETURN book
get_book(g, isbn) ==
    IF isbn \in g.books
    THEN <<[isbn |-> isbn, quantity |-> g.quantity[isbn]]>>
    ELSE <<>>

\* mutant: the username filter dropped, MATCH (user:User) RETURN user
get_user_NoFilter(g, username) ==
    IF g.users # {} THEN <<[username |-> CHOOSE u \in g.users : TRUE]>> ELSE <<>>

\* MATCH (user:User {username: {username}}) RETURN user
get_user(g, username) ==
    IF username \in g.users THEN <<[username |-> username]>> ELSE <<>>

\* mutant: ON MATCH sets the quantity to 1 again instead of adding 1
merge_borrows_NoIncrement(g, username, isbn) ==
    IF username \in g.users /\ isbn \in g.books
    THEN [g EXCEPT !.borrows =
            [p \in DOMAIN g.borrows \cup {<<username, isbn>>} |->
                IF p = <<username, isbn>> THEN 1 ELSE g.borrows[p]]]
    ELSE g

\* MATCH (user) MATCH (book) MERGE (user)-[borrows:Borrows]->(book)
\* ON CREATE SET borrows.quantity = 1
\* ON MATCH SET borrows.quantity = borrows.quantity + 1
merge_borrows(g, username, isbn) ==
    IF username \in g.users /\ isbn \in g.books
    THEN [g EXCEPT !.borrows =
            [p \in DOMAIN g.borrows \cup {<<username, isbn>>} |->
                IF p = <<username, isbn>>
                THEN IF p \in DOMAIN g.borrows THEN g.borrows[p] + 1 ELSE 1
                ELSE g.borrows[p]]]
    ELSE g

\* MATCH (book:Book {isbn: {isbn}}) SET book.quantity = book.quantity - 1
decrement_stock(g, isbn) ==
    IF isbn \in g.books
    THEN [g EXCEPT !.quantity[isbn] = @ - 1]
    ELSE g

\* mutant: the pattern does not bind the user, any borrower of the book matches
match_borrows_AnyUser(g, username, isbn) ==
    LET on == {p \in DOMAIN g.borrows : p[2] = isbn} IN
    IF on # {}
    THEN <<[quantity |-> g.borrows[CHOOSE p \in on : TRUE]]>>
    ELSE <<>>

\* MATCH (user {username}) - [borrows:Borrows] - (book {isbn}) RETURN borrows
match_borrows(g, username, isbn) ==
    IF <<username, isbn>> \in DOMAIN g.borrows
    THEN <<[quantity |-> g.borrows[<<username, isbn>>]]>>
    ELSE <<>>

\* mutant: the relation is deleted and the stock is not given back
delete_borrows_NoRestock(g, username, isbn) ==
    IF <<username, isbn>> \in DOMAIN g.borrows
    THEN [g EXCEPT
            !.borrows = [p \in DOMAIN g.borrows \ {<<username, isbn>>} |->
                            g.borrows[p]]]
    ELSE g

\* MATCH (user) - [borrows:Borrows] - (book)
\* DELETE borrows SET book.quantity = book.quantity + 1
delete_borrows(g, username, isbn) ==
    IF <<username, isbn>> \in DOMAIN g.borrows
    THEN [g EXCEPT
            !.borrows = [p \in DOMAIN g.borrows \ {<<username, isbn>>} |->
                            g.borrows[p]],
            !.quantity[isbn] = @ + 1]
    ELSE g

\* MATCH (user) - [borrows:Borrows] - (book)
\* SET borrows.quantity = borrows.quantity - 1, book.quantity = book.quantity + 1
decrement_borrows(g, username, isbn) ==
    IF <<username, isbn>> \in DOMAIN g.borrows
    THEN [g EXCEPT !.borrows[<<username, isbn>>] = @ - 1,
                   !.quantity[isbn] = @ + 1]
    ELSE g

\* mutant: the pattern runs from the book to the user and never matches
match_rates_Reversed(g, username, isbn) == <<>>

\* MATCH (user {username}) - [rates:Rates] - (book {isbn}) RETURN rates
match_rates(g, username, isbn) ==
    [i \in 1..Len(g.rates[<<username, isbn>>]) |->
        [score |-> g.rates[<<username, isbn>>][i]]]

\* MATCH (user) MATCH (book) CREATE (user) - [rates:Rates {score: s}] -> (book)
create_rates(g, username, isbn, score) ==
    IF username \in g.users /\ isbn \in g.books
    THEN [g EXCEPT !.rates[<<username, isbn>>] = Append(@, score)]
    ELSE g

\* ------------------------------------------------------------ handlers
\* What a handler returns: the graph it leaves, its boolean result, the
\* message it logs last, and the score that message reports (0: none).
Success(g, msg) == [store |-> g, ok |-> TRUE, msg |-> msg, score |-> 0]
Failure(g, msg) == [store |-> g, ok |-> FALSE, msg |-> msg, score |-> 0]

\* mutant: the stock test is quantity < 0
out_of_stock_Strict(quantity) == quantity < 0

\* if quantity <= 0: 'book isbn={} is out of stock'
out_of_stock(quantity) == quantity <= 0

\* the statement return_book_for_user picks from the quantity it read
return_write(g, username, isbn, quantity) ==
    IF quantity = 1
    THEN delete_borrows(g, username, isbn)
    ELSE decrement_borrows(g, username, isbn)

check_out_book_for_user(g, isbn, username) ==
    LET book_result == get_book(g, isbn) IN
    IF book_result = <<>>
    THEN Failure(g, "book does not exist")
    ELSE IF out_of_stock(book_result[Len(book_result)].quantity)
    THEN Failure(g, "book is out of stock")
    ELSE IF get_user(g, username) = <<>>
    THEN Failure(g, "user does not exist")
    ELSE Success(decrement_stock(merge_borrows(g, username, isbn), isbn),
                 "checked out book")

return_book_for_user(g, isbn, username) ==
    LET result == match_borrows(g, username, isbn) IN
    IF result = <<>>
    THEN Failure(g, "book was not checked out by user")
    ELSE Success(return_write(g, username, isbn,
                              result[Len(result)].quantity),
                 "returned book")

\* a rating that replaces the score of the pair
rate_book_Overwrite(g, username, isbn, score) ==
    Success([g EXCEPT !.rates[<<username, isbn>>] = <<score>>], "added rating")

rate_book(g, username, isbn, score) ==
    IF get_user(g, username) = <<>>
    THEN Failure(g, "user does not exist")
    ELSE IF get_book(g, isbn) = <<>>
    THEN Failure(g, "book does not exist")
    ELSE LET result == match_rates(g, username, isbn) IN
         IF result # <<>>
         THEN [store |-> g, ok |-> FALSE, msg |-> "user has already rated book",
               score |-> result[1].score]
         ELSE Success(create_rates(g, username, isbn, score), "added rating")

\* ------------------------------------------------ the sequential engine
\* Callers run one at a time: every action is one whole handler.
Init ==
    /\ \E B \in SUBSET ISBNS, U \in SUBSET USERS :
         \E q \in [B -> 0..MaxStock] :
            /\ store = [books |-> B, quantity |-> q, users |-> U,
                        borrows |-> [p \in {} |-> 0],
                        rates |-> [p \in Pairs |-> <<>>],
                        pages |-> [b \in B |-> 1],
                        title |-> [b \in B |-> <<"t">>],
                        phone |-> [u \in U |-> 1],
                        name |-> [u \in U |-> <<"n">>],
                        authors |-> {},
                        authorOf |-> [l \in Links |-> 0]]
            /\ stock0 = [b \in ISBNS |-> IF b \in B THEN q[b] ELSE 0]
    /\ nOut = [b \in ISBNS |-> 0]
    /\ nRet = [b \in ISBNS |-> 0]
    /\ calls = 0
    /\ lastOp = NoOp
    /\ pc = [p \in Procs |-> "idle"]
    /\ args = [p \in Procs |-> NoArgs]
    /\ local = [p \in Procs |-> 0]
    /\ found = [b \in ISBNS |-> 0]
    /\ runs = 0

\* lastOp after a handler returned r: its name and arguments (score 0 when
\* it takes none), its result, the message and the score the message reports
Returned(op, isbn, username, score, r) ==
    [op |-> op, isbn |-> isbn, username |-> username, score |-> score,
     ok |-> r.ok, msg |-> r.msg, reported |-> r.score]

CheckOut(isbn, username) ==
    /\ calls < MaxCalls
    /\ LET r == check_out_book_for_user(store, isbn, username) IN
         /\ store' = r.store
         /\ lastOp' = Returned("check_out_book_for_user", isbn, username, 0, r)
         /\ nOut' = IF r.ok THEN [nOut EXCEPT ![isbn] = @ + 1] ELSE nOut
    /\ calls' = calls + 1
    /\ UNCHANGED <<found, runs, stock0, nRet, pc, args, local>>

Return(isbn, username) ==
    /\ calls < MaxCalls
    /\ LET r == return_book_for_user(store, isbn, username) IN
         /\ store' = r.store
         /\ lastOp' = Returned("return_book_for_user", isbn, username, 0, r)
         /\ nRet' = IF r.ok THEN [nRet EXCEPT ![isbn] = @ + 1] ELSE nRet
    /\ calls' = calls + 1
    /\ UNCHANGED <<found, runs, stock0, nOut, pc, args, local>>

Rate(username, isbn, score) ==
    /\ calls < MaxCalls
    /\ LET r == rate_book(store, username, isbn, score) IN
         /\ store' = r.store
         /\ lastOp' = Returned("rate_book", isbn, username, score, r)
    /\ calls' = calls + 1
    /\ UNCHANGED <<found, runs, stock0, nOut, nRet, pc, args, local>>

NextLedger ==
    \E isbn \in ISBNS, username \in USERS :
        \/ CheckOut(isbn, username)
        \/ Return(isbn, username)

NextRates ==
    \E isbn \in ISBNS, username \in USERS, score \in SCORES :
        Rate(username, isbn, score)

\* check_out_book_for_user and return_book_for_user, one call at a time
SpecLedger == Init /\ [][NextLedger]_vars

\* rate_book, one call at a time
SpecRates == Init /\ [][NextRates]_vars

\* ------------------------------------------------ concurrent callers
\* Every caller holds its own session; each session.run is one auto-commit
\* statement, so the statements of different callers interleave. A step is
\* one statement together with the Python that follows it up to the next
\* statement or the return.
Finish(p, op, a, r) ==
    /\ pc' = [pc EXCEPT ![p] = "idle"]
    /\ args' = [args EXCEPT ![p] = NoArgs]
    /\ local' = [local EXCEPT ![p] = 0]
    /\ lastOp' = Returned(op, a.isbn, a.username, a.score, r)

Goto(p, label, a) ==
    /\ pc' = [pc EXCEPT ![p] = label]
    /\ args' = [args EXCEPT ![p] = a]
    /\ UNCHANGED <<local, lastOp>>

Args(isbn, username, score) ==
    [isbn |-> isbn, username |-> username, score |-> score]

CoGetBook(p, isbn, username) ==
    /\ pc[p] = "idle" /\ calls < MaxConcCalls
    /\ calls' = calls + 1
    /\ LET book_result == get_book(store, isbn)
           a == Args(isbn, username, 0)
       IN  IF book_result = <<>>
           THEN Finish(p, "check_out_book_for_user", a,
                       Failure(store, "book does not exist"))
           ELSE IF out_of_stock(book_result[Len(book_result)].quantity)
           THEN Finish(p, "check_out_book_for_user", a,
                       Failure(store, "book is out of stock"))
           ELSE Goto(p, "co_get_user", a)
    /\ UNCHANGED <<found, runs, store, stock0, nOut, nRet>>

CoGetUser(p) ==
    /\ pc[p] = "co_get_user"
    /\ IF get_user(store, args[p].username) = <<>>
       THEN Finish(p, "check_out_book_for_user", args[p],
                   Failure(store, "user does not exist"))
       ELSE Goto(p, "co_merge", args[p])
    /\ UNCHANGED <<found, runs, store, stock0, nOut, nRet, calls>>

CoMerge(p) ==
    /\ pc[p] = "co_merge"
    /\ store' = merge_borrows(store, args[p].username, args[p].isbn)
    /\ Goto(p, "co_decrement", args[p])
    /\ UNCHANGED <<found, runs, stock0, nOut, nRet, calls>>

CoDecrement(p) ==
    /\ pc[p] = "co_decrement"
    /\ store' = decrement_stock(store, args[p].isbn)
    /\ Finish(p, "check_out_book_for_user", args[p],
              Success(store', "checked out book"))
    /\ nOut' = [nOut EXCEPT ![args[p].isbn] = @ + 1]
    /\ UNCHANGED <<found, runs, stock0, nRet, calls>>

RetMatch(p, isbn, username) ==
    /\ pc[p] = "idle" /\ calls < MaxConcCalls
    /\ calls' = calls + 1
    /\ LET result == match_borrows(store, username, isbn)
           a == Args(isbn, username, 0)
       IN  IF result = <<>>
           THEN Finish(p, "return_book_for_user", a,
                       Failure(store, "book was not checked out by user"))
           ELSE /\ pc' = [pc EXCEPT ![p] = "ret_write"]
                /\ args' = [args EXCEPT ![p] = a]
                /\ local' = [local EXCEPT ![p] = result[Len(result)].quantity]
                /\ UNCHANGED lastOp
    /\ UNCHANGED <<found, runs, store, stock0, nOut, nRet>>

RetWrite(p) ==
    /\ pc[p] = "ret_write"
    /\ store' = return_write(store, args[p].username, args[p].isbn, local[p])
    /\ Finish(p, "return_book_for_user", args[p],
              Success(store', "returned book"))
    /\ nRet' = [nRet EXCEPT ![args[p].isbn] = @ + 1]
    /\ UNCHANGED <<found, runs, stock0, nOut, calls>>

RateGetUser(p, username, isbn, score) ==
    /\ pc[p] = "idle" /\ calls < MaxRateCalls
    /\ calls' = calls + 1
    /\ LET a == Args(isbn, username, score) IN
         IF get_user(store, username) = <<>>
         THEN Finish(p, "rate_book", a, Failure(store, "user does not exist"))
         ELSE Goto(p, "rate_get_book", a)
    /\ UNCHANGED <<found, runs, store, stock0, nOut, nRet>>

RateGetBook(p) ==
    /\ pc[p] = "rate_get_book"
    /\ IF get_book(store, args[p].isbn) = <<>>
       THEN Finish(p, "rate_book", args[p],
                   Failure(store, "book does not exist"))
       ELSE Goto(p, "rate_match", args[p])
    /\ UNCHANGED <<found, runs, store, stock0, nOut, nRet, calls>>

RateMatch(p) ==
    /\ pc[p] = "rate_match"
    /\ LET result == match_rates(store, args[p].username, args[p].isbn) IN
         IF result # <<>>
         THEN Finish(p, "rate_book", args[p],
                     [store |-> store, ok |-> FALSE,
                      msg |-> "user has already rated book",
                      score |-> result[1].score])
         ELSE Goto(p, "rate_create", args[p])
    /\ UNCHANGED <<found, runs, store, stock0, nOut, nRet, calls>>

RateCreate(p) ==
    /\ pc[p] = "rate_create"
    /\ store' = create_rates(store, args[p].username, args[p].isbn,
                             args[p].score)
    /\ Finish(p, "rate_book", args[p], Success(store', "added rating"))
    /\ UNCHANGED <<found, runs, stock0, nOut, nRet, calls>>

\* The store rejects a statement: session.run raises CypherError, which
\* the handler's except clause turns into False (__handle_cyphererror).
\* A rejected statement changes nothing in the graph.
HandlerAt(label) ==
    IF label \in {"co_get_user", "co_merge", "co_decrement"}
    THEN "check_out_book_for_user"
    ELSE IF label = "ret_write" THEN "return_book_for_user"
    ELSE "rate_book"

Reject(p) ==
    /\ pc[p] # "idle"
    /\ Finish(p, HandlerAt(pc[p]), args[p], Failure(store, "CypherError"))
    /\ UNCHANGED <<found, runs, store, stock0, nOut, nRet, calls>>

RejectFirst(p, op, isbn, username) ==
    /\ pc[p] = "idle" /\ calls < MaxConcCalls
    /\ calls' = calls + 1
    /\ Finish(p, op, Args(isbn, username, 0), Failure(store, "CypherError"))
    /\ UNCHANGED <<found, runs, store, stock0, nOut, nRet>>

NextConc ==
    \E p \in Procs :
        \/ \E isbn \in ISBNS, username \in USERS :
              \/ CoGetBook(p, isbn, username)
              \/ RetMatch(p, isbn, username)
        \/ CoGetUser(p)
        \/ CoMerge(p)
        \/ CoDecrement(p)
        \/ RetWrite(p)

NextConcRates ==
    \E p \in Procs :
        \/ \E isbn \in ISBNS, username \in USERS, score \in SCORES :
              RateGetUser(p, username, isbn, score)
        \/ RateGetBook(p)
        \/ RateMatch(p)
        \/ RateCreate(p)

NextReject ==
    \E p \in Procs :
        \/ Reject(p)
        \/ \E isbn \in ISBNS, username \in USERS,
              op \in {"check_out_book_for_user", "return_book_for_user"} :
              RejectFirst(p, op, isbn, username)

\* concurrent check_out_book_for_user and return_book_for_user calls
SpecConc == Init /\ [][NextConc]_vars

\* concurrent rate_book calls
SpecConcRates == Init /\ [][NextConcRates]_vars

\* concurrent ledger calls against a store that may reject any statement
SpecFail == Init /\ [][NextConc \/ NextReject]_vars

\* ------------------------------------------------ catalog statements
\* A string that is parsed or stored as text is a sequence of characters.
\* The graph with no node and no relation, as Neo4jAPI finds a new store.
EmptyGraph ==
    [books |-> {}, quantity |-> [b \in {} |-> 0], users |-> {},
     borrows |-> [p \in {} |-> 0],
     rates |-> [p \in Pairs |-> <<>>],
     pages |-> [b \in {} |-> 0], title |-> [b \in {} |-> <<>>],
     phone |-> [u \in {} |-> 0], name |-> [u \in {} |-> <<>>],
     authors |-> {}, authorOf |-> [l \in Links |-> 0]]

\* f with x mapped to v, x added to its domain when it is not there
Put(f, x, v) == [y \in DOMAIN f \cup {x} |-> IF y = x THEN v ELSE f[y]]

\* f without x
Drop(f, x) == [y \in DOMAIN f \ {x} |-> f[y]]

\* CREATE (book:Book {isbn, title, pages, quantity}); isbn is a node key, so
\* the store rejects a second node with the same isbn (raised: CypherError)
create_book(g, book) ==
    IF book.isbn \in g.books
    THEN [store |-> g, raised |-> TRUE]
    ELSE [store |-> [g EXCEPT !.books = @ \cup {book.isbn},
                              !.quantity = Put(@, book.isbn, book.quantity),
                              !.pages = Put(@, book.isbn, book.pages),
                              !.title = Put(@, book.isbn, book.title)],
          raised |-> FALSE]

\* CREATE (user:User {username, name, phone}); username is a node key
create_user(g, user) ==
    IF user.username \in g.users
    THEN [store |-> g, raised |-> TRUE]
    ELSE [store |-> [g EXCEPT !.users = @ \cup {user.username},
                              !.name = Put(@, user.username, user.name),
                              !.phone = Put(@, user.username, user.phone)],
          raised |-> FALSE]

\* MATCH(book {isbn}) MERGE(author {name}) CREATE(book) <- [:Author_Of] - (author)
\* No book, no row: neither the MERGE nor the CREATE runs.
link_author_to_book(g, isbn, name) ==
    IF isbn \in g.books
    THEN [g EXCEPT !.authors = @ \cup {name},
                   !.authorOf[<<isbn, name>>] = @ + 1]
    ELSE g

\* The rows of MATCH (book {isbn}) - [:Author_Of] - (author) RETURN author:
\* one per relation. The store fixes no order; the loops over these rows
\* delete only authors that have no relation, so their effect has none.
RECURSIVE author_rows(_, _, _)
author_rows(g, isbn, names) ==
    IF names = {} THEN <<>>
    ELSE LET a == CHOOSE x \in names : TRUE IN
         [i \in 1..g.authorOf[<<isbn, a>>] |-> a]
            \o author_rows(g, isbn, names \ {a})

\* a statement that returns the authors and deletes no relation
delete_author_of_Keep(g, isbn) ==
    [store |-> g, rows |-> author_rows(g, isbn, AUTHORS)]

\* MATCH (book {isbn}) - [relationship:Author_Of] - (author)
\* DELETE relationship RETURN author
delete_author_of(g, isbn) ==
    [store |-> [g EXCEPT !.authorOf =
                    [l \in Links |-> IF l[1] = isbn THEN 0 ELSE g.authorOf[l]]],
     rows |-> author_rows(g, isbn, AUTHORS)]

\* MATCH (author {name}) - [relation:Author_Of] - (:Book) RETURN COUNT(relation)
count_author_of(g, name) ==
    SumOver(g.authorOf, {l \in Links : l[2] = name})

\* a statement that deletes nothing
delete_author_Kept(g, name) == g

\* MATCH (author {name}) DELETE author; it is issued for authors without
\* relation only
delete_author(g, name) ==
    IF count_author_of(g, name) = 0
    THEN [g EXCEPT !.authors = @ \ {name}]
    ELSE g

\* a guard that looks at the Borrows relations only
count_book_user_relations_BorrowsOnly(g, isbn) ==
    Cardinality({p \in DOMAIN g.borrows : p[2] = isbn})

\* MATCH (book {isbn}) - [r] - (:User) RETURN COUNT(r): the pattern names no
\* relation type, so Borrows and Rates relations both count
count_book_user_relations(g, isbn) ==
    Cardinality({p \in DOMAIN g.borrows : p[2] = isbn})
      + SumOver([p \in DOMAIN g.rates |-> Len(g.rates[p])],
                {p \in DOMAIN g.rates : p[2] = isbn})

\* a guard that looks at the Borrows relations only
count_user_book_relations_BorrowsOnly(g, username) ==
    Cardinality({p \in DOMAIN g.borrows : p[1] = username})

\* MATCH (user {username}) - [r] - (:Book) RETURN COUNT(r)
count_user_book_relations(g, username) ==
    Cardinality({p \in DOMAIN g.borrows : p[1] = username})
      + SumOver([p \in DOMAIN g.rates |-> Len(g.rates[p])],
                {p \in DOMAIN g.rates : p[1] = username})

\* MATCH (book {isbn}) DELETE book
delete_book(g, isbn) ==
    IF isbn \in g.books
    THEN [g EXCEPT !.books = @ \ {isbn}, !.quantity = Drop(@, isbn),
                   !.pages = Drop(@, isbn), !.title = Drop(@, isbn)]
    ELSE g

\* MATCH (user {username}) DELETE user
delete_user(g, username) ==
    IF username \in g.users
    THEN [g EXCEPT !.users = @ \ {username}, !.name = Drop(@, username),
                   !.phone = Drop(@, username)]
    ELSE g

\* -------------------------------------------------- catalog handlers
\* for author in authors: __link_author_to_book(session, isbn, author)
RECURSIVE link_authors(_, _, _)
link_authors(g, isbn, authors) ==
    IF authors = <<>> THEN g
    ELSE link_authors(link_author_to_book(g, isbn, Head(authors)), isbn,
                      Tail(authors))

\* a clean-up that deletes no author
clean_orphans_Skip(acc, rows) == acc

\* for record in result.records(): count the author's relations and delete
\* the author when there is none. acc.store is the graph, acc.runs the
\* session.run calls issued.
RECURSIVE clean_orphans(_, _)
clean_orphans(acc, rows) ==
    IF rows = <<>> THEN acc
    ELSE LET orphan == count_author_of(acc.store, Head(rows)) = 0 IN
         clean_orphans(
            [store |-> IF orphan THEN delete_author(acc.store, Head(rows))
                       ELSE acc.store,
             runs |-> acc.runs + (IF orphan THEN 2 ELSE 1)],
            Tail(rows))

add_book(g, book) ==
    LET created == create_book(g, book) IN
    IF created.raised
    THEN Failure(g, "CypherError")
    ELSE Success(link_authors(created.store, book.isbn, book.authors),
                 "added book")

add_user(g, user) ==
    LET created == create_user(g, user) IN
    IF created.raised
    THEN Failure(g, "CypherError")
    ELSE Success(created.store, "added new user")

\* the authors branch of edit_book: remove the relations, clean up the
\* orphans, link the new authors
set_authors(g, isbn, value) ==
    LET removed == delete_author_of(g, isbn)
        cleaned == clean_orphans([store |-> removed.store, runs |-> 1],
                                 removed.rows)
    IN  [store |-> link_authors(cleaned.store, isbn, value),
         ok |-> TRUE, msg |-> "edited book", score |-> 0,
         runs |-> cleaned.runs + Len(value)]

\* a removal that looks for the book first
remove_book_NotFound(g, isbn) ==
    IF isbn \notin g.books
    THEN Failure(g, "book does not exist")
    ELSE Success(delete_book(delete_author_of(g, isbn).store, isbn),
                 "removed book")

remove_book(g, isbn) ==
    IF count_book_user_relations(g, isbn) # 0
    THEN Failure(g, "book is involved in user relations")
    ELSE LET removed == delete_author_of(g, isbn)
             cleaned == clean_orphans([store |-> removed.store, runs |-> 2],
                                      removed.rows)
         IN  Success(delete_book(cleaned.store, isbn), "removed book")

remove_user(g, username) ==
    IF count_user_book_relations(g, username) # 0
    THEN Failure(g, "user is involved in book relations")
    ELSE Success(delete_user(g, username), "removed user")

\* int(value) of Python for a text of an optional sign and decimal digits;
\* any other text raises ValueError (ok is FALSE)
Digits == <<"0", "1", "2", "3", "4", "5", "6", "7", "8", "9">>

RECURSIVE digits_value(_)
digits_value(text) ==
    IF text = <<>> THEN 0
    ELSE 10 * digits_value(SubSeq(text, 1, Len(text) - 1))
           + ((CHOOSE d \in 1..10 : Digits[d] = text[Len(text)]) - 1)

\* a parse in which a text that is no number counts as 0
int_Lenient(text) ==
    LET signed == text # <<>> /\ text[1] \in {"-", "+"}
        body == IF signed THEN Tail(text) ELSE text
        valid == body # <<>> /\ \A i \in 1..Len(body) :
                                  \E d \in 1..10 : Digits[d] = body[i]
    IN  IF valid
        THEN [ok |-> TRUE,
              value |-> IF signed /\ text[1] = "-" THEN 0 - digits_value(body)
                        ELSE digits_value(body)]
        ELSE [ok |-> TRUE, value |-> 0]

int(text) ==
    LET signed == text # <<>> /\ text[1] \in {"-", "+"}
        body == IF signed THEN Tail(text) ELSE text
        valid == body # <<>> /\ \A i \in 1..Len(body) :
                                  \E d \in 1..10 : Digits[d] = body[i]
    IN  IF valid
        THEN [ok |-> TRUE,
              value |-> IF signed /\ text[1] = "-" THEN 0 - digits_value(body)
                        ELSE digits_value(body)]
        ELSE [ok |-> FALSE, value |-> 0]

\* MATCH (book {isbn}) SET book.<field> = <value> RETURN book
set_book_property(g, isbn, field, value) ==
    IF isbn \in g.books
    THEN [g EXCEPT ![field][isbn] = value]
    ELSE g

\* MATCH (user {username}) SET user.<field> = <value> RETURN user
set_user_property(g, username, field, value) ==
    IF username \in g.users
    THEN [g EXCEPT ![field][username] = value]
    ELSE g

\* r with the number of session.run calls the handler issued
Ran(r, n) ==
    [store |-> r.store, ok |-> r.ok, msg |-> r.msg, score |-> r.score,
     runs |-> n]

\* if value < 0: 'requires value to be a positive integer'
rejected_number(value) == value < 0

\* value is the list of texts of the command line (of names for authors).
\* An empty list for another field than authors fails to unpack: the
\* ValueError is not caught and leaves edit_book as an exception.
edit_book(g, isbn, field, value) ==
    IF field # "authors" /\ Len(value) > 1
    THEN Ran(Failure(g, "field only accepts exactly 1 value"), 0)
    ELSE IF field # "authors" /\ Len(value) = 0
    THEN Ran(Failure(g, "ValueError raised"), 0)
    ELSE IF field \in {"quantity", "pages"}
    THEN LET number == int(value[1]) IN
         IF ~number.ok
         THEN Ran(Failure(g, "field requires value to be an integer"), 0)
         ELSE IF rejected_number(number.value)
         THEN Ran(Failure(g, "field requires value to be a positive integer"), 0)
         ELSE Ran(Success(set_book_property(g, isbn, field, number.value),
                          "edited book"), 1)
    ELSE IF field = "authors"
    THEN set_authors(g, isbn, value)
    ELSE Ran(Success(set_book_property(g, isbn, field, value[1]),
                     "edited book"), 1)

\* value is one text
edit_user(g, username, field, value) ==
    IF field = "phone"
    THEN LET number == int(value) IN
         IF ~number.ok
         THEN Ran(Failure(g, "field requires value to be an integer"), 0)
         ELSE Ran(Success(set_user_property(g, username, field, number.value),
                          "edited user"), 1)
    ELSE Ran(Success(set_user_property(g, username, field, value),
                     "edited user"), 1)

\* lastOp after a catalog handler returned r: its name and arguments, its
\* result and message
ReturnedEdit(op, isbn, username, field, value, r) ==
    [op |-> op, isbn |-> isbn, username |-> username, score |-> 0,
     ok |-> r.ok, msg |-> r.msg, reported |-> 0,
     field |-> field, value |-> value]

\* The authors a book is linked to; a call on the book records them in
\* lastOp.before as they were when it started.
AuthorsOf(g, isbn) == {a \in AUTHORS : g.authorOf[<<isbn, a>>] > 0}

\* The book add_book is given: the model's books differ in isbn and authors.
NewBook(isbn, authors) ==
    [isbn |-> isbn, title |-> <<"t">>, pages |-> 1, quantity |-> 1,
     authors |-> authors]

\* ------------------------------------------------- the catalog engine
InitEmpty ==
    /\ store = EmptyGraph
    /\ stock0 = [b \in ISBNS |-> 0]
    /\ nOut = [b \in ISBNS |-> 0]
    /\ nRet = [b \in ISBNS |-> 0]
    /\ calls = 0
    /\ lastOp = NoOp
    /\ pc = [p \in Procs |-> "idle"]
    /\ args = [p \in Procs |-> NoArgs]
    /\ local = [p \in Procs |-> 0]
    /\ found = [b \in ISBNS |-> 0]
    /\ runs = 0

AddBook(isbn, authors) ==
    /\ calls < MaxCatalogCalls
    /\ LET r == add_book(store, NewBook(isbn, authors)) IN
         /\ store' = r.store
         /\ lastOp' = ReturnedEdit("add_book", isbn, "", "authors", authors, r)
    /\ calls' = calls + 1
    /\ UNCHANGED <<found, runs, stock0, nOut, nRet, pc, args, local>>

EditAuthors(isbn, authors) ==
    /\ calls < MaxCatalogCalls
    /\ LET r == edit_book(store, isbn, "authors", authors) IN
         /\ store' = r.store
         /\ lastOp' = ReturnedEdit("edit_book", isbn, "", "authors", authors, r)
                        @@ [before |-> AuthorsOf(store, isbn)]
         /\ runs' = r.runs
    /\ calls' = calls + 1
    /\ UNCHANGED <<found, stock0, nOut, nRet, pc, args, local>>

RemoveBook(isbn) ==
    /\ calls < MaxCatalogCalls
    /\ LET r == remove_book(store, isbn) IN
         /\ store' = r.store
         /\ lastOp' = ReturnedEdit("remove_book", isbn, "", "", <<>>, r)
                        @@ [before |-> AuthorsOf(store, isbn),
                            existed |-> isbn \in store.books]
    /\ calls' = calls + 1
    /\ UNCHANGED <<found, runs, stock0, nOut, nRet, pc, args, local>>

NextAuthors ==
    \E isbn \in ISBNS :
        \/ \E authors \in AUTHOR_LISTS :
              \/ AddBook(isbn, authors)
              \/ EditAuthors(isbn, authors)
        \/ RemoveBook(isbn)

\* add_book, edit_book(authors) and remove_book on a new store, one call at
\* a time
SpecAuthors == InitEmpty /\ [][NextAuthors]_vars

\* The store after add_book('111') and add_user('alice') on a new store.
InitEdit ==
    /\ store = add_user(add_book(EmptyGraph, NewBook("111", <<"A">>)).store,
                        [username |-> "alice", name |-> <<"n">>,
                         phone |-> 1]).store
    /\ stock0 = [b \in ISBNS |-> IF b = "111" THEN 1 ELSE 0]
    /\ nOut = [b \in ISBNS |-> 0]
    /\ nRet = [b \in ISBNS |-> 0]
    /\ calls = 0
    /\ lastOp = NoOp
    /\ pc = [p \in Procs |-> "idle"]
    /\ args = [p \in Procs |-> NoArgs]
    /\ local = [p \in Procs |-> 0]
    /\ found = [b \in ISBNS |-> 0]
    /\ runs = 0

EditBook(isbn, field, value) ==
    /\ calls < MaxEditCalls
    /\ LET r == edit_book(store, isbn, field, value) IN
         /\ store' = r.store
         /\ lastOp' = ReturnedEdit("edit_book", isbn, "", field, value, r)
         /\ runs' = r.runs
    /\ calls' = calls + 1
    /\ UNCHANGED <<found, stock0, nOut, nRet, pc, args, local>>

EditUser(username, field, value) ==
    /\ calls < MaxEditCalls
    /\ LET r == edit_user(store, username, field, value) IN
         /\ store' = r.store
         /\ lastOp' = ReturnedEdit("edit_user", "", username, field, value, r)
         /\ runs' = r.runs
    /\ calls' = calls + 1
    /\ UNCHANGED <<found, stock0, nOut, nRet, pc, args, local>>

NextEdit ==
    \/ \E isbn \in ISBNS, field \in {"quantity", "pages", "title"},
          value \in VALUE_LISTS : EditBook(isbn, field, value)
    \/ \E isbn \in ISBNS, authors \in AUTHOR_LISTS :
          EditBook(isbn, "authors", authors)
    \/ \E username \in USERS, field \in {"phone", "name"}, value \in TEXTS :
          EditUser(username, field, value)

\* edit_book and edit_user, one call at a time
SpecEdit == InitEdit /\ [][NextEdit]_vars

\* ------------------------------------------------ the deletion guard
\* The store after add_user for every user and add_book for both books,
\* each with MaxStock copies; book 222 is written by B.
InitLibrary ==
    /\ \E authors \in AUTHOR_LISTS :
         store =
           add_book(
             add_book(
               add_user(
                 add_user(EmptyGraph,
                          [username |-> "alice", name |-> <<"n">>,
                           phone |-> 1]).store,
                 [username |-> "bob", name |-> <<"n">>, phone |-> 1]).store,
               [NewBook("111", authors) EXCEPT !.quantity = MaxStock]).store,
             [NewBook("222", <<"B">>) EXCEPT !.quantity = MaxStock]).store
    /\ stock0 = [b \in ISBNS |-> MaxStock]
    /\ nOut = [b \in ISBNS |-> 0]
    /\ nRet = [b \in ISBNS |-> 0]
    /\ calls = 0
    /\ lastOp = NoOp
    /\ pc = [p \in Procs |-> "idle"]
    /\ args = [p \in Procs |-> NoArgs]
    /\ local = [p \in Procs |-> 0]
    /\ found = [b \in ISBNS |-> 0]
    /\ runs = 0

RemoveUser(username) ==
    /\ calls < MaxRemoveCalls
    /\ LET r == remove_user(store, username) IN
         /\ store' = r.store
         /\ lastOp' = ReturnedEdit("remove_user", "", username, "", <<>>, r)
                        @@ [existed |-> username \in store.users]
    /\ calls' = calls + 1
    /\ UNCHANGED <<found, runs, stock0, nOut, nRet, pc, args, local>>

\* The calls of the circulation desk, capped at MaxRemoveCalls.
DeskCheckOut(isbn, username) ==
    calls < MaxRemoveCalls /\ CheckOut(isbn, username)

DeskReturn(isbn, username) ==
    calls < MaxRemoveCalls /\ Return(isbn, username)

DeskRate(username, isbn, score) ==
    calls < MaxRemoveCalls /\ Rate(username, isbn, score)

DeskRemoveBook(isbn) ==
    calls < MaxRemoveCalls /\ RemoveBook(isbn)

NextRemove ==
    \/ \E isbn \in ISBNS, username \in USERS :
          \/ DeskCheckOut(isbn, username)
          \/ DeskReturn(isbn, username)
    \/ \E isbn \in ISBNS, username \in USERS, score \in SCORES :
          DeskRate(username, isbn, score)
    \/ \E isbn \in ISBNS : DeskRemoveBook(isbn)
    \/ \E username \in USERS : RemoveUser(username)

\* checkouts, returns, ratings and removals, one call at a time
SpecRemove == InitLibrary /\ [][NextRemove]_vars

\* ------------------------------------------------- recommendations
\* AND r3.score >= 3
GoodScore == 3

\* The Rates relations of the graph: the i-th one of a user on a book.
rates_relations(g) ==
    UNION {{<<p[1], p[2], i>> : i \in 1..Len(g.rates[p])} : p \in DOMAIN g.rates}

rates_score(g, r) == g.rates[<<r[1], r[2]>>][r[3]]

\* the rows of a match that does not compare r1.score with r2.score
recommend_rows_AnyScore(g, username) ==
    LET R == rates_relations(g) IN
    {t \in R \X R \X R :
        /\ t[1][1] = username /\ t[2][2] = t[1][2] /\ t[3][1] = t[2][1]
        /\ t[1] # t[2] /\ t[2] # t[3] /\ t[1] # t[3]
        /\ rates_score(g, t[3]) >= GoodScore}

\* MATCH (:User {username}) - [r1:Rates] - (b1:Book) - [r2:Rates] -
\*       (friend:User) - [r3:Rates] - (b2:Book)
\* WHERE r1.score = r2.score AND r3.score >= 3
\* One row per match <<r1, r2, r3>>; a match binds the relations of one
\* pattern to different relations of the graph.
recommend_rows(g, username) ==
    LET R == rates_relations(g) IN
    {t \in R \X R \X R :
        /\ t[1][1] = username /\ t[2][2] = t[1][2] /\ t[3][1] = t[2][1]
        /\ t[1] # t[2] /\ t[2] # t[3] /\ t[1] # t[3]
        /\ rates_score(g, t[1]) = rates_score(g, t[2])
        /\ rates_score(g, t[3]) >= GoodScore}

\* RETURN b2 as recommendation, appended row by row: the number of times
\* each book is in the list returned.
recommend_books(g, username) ==
    [b \in ISBNS |->
        Cardinality({t \in recommend_rows(g, username) : t[3][2] = b})]

\* Three readers and both books, nothing rated yet.
InitReaders ==
    /\ store =
         [add_book(
            add_book(
              add_user(
                add_user(
                  add_user(EmptyGraph,
                           [username |-> "alice", name |-> <<"n">>,
                            phone |-> 1]).store,
                  [username |-> "bob", name |-> <<"n">>, phone |-> 1]).store,
                [username |-> "carol", name |-> <<"n">>, phone |-> 1]).store,
              NewBook("111", <<"A">>)).store,
            NewBook("222", <<"B">>)).store
          EXCEPT !.rates = [p \in READERS \X ISBNS |-> <<>>]]
    /\ stock0 = [b \in ISBNS |-> 1]
    /\ nOut = [b \in ISBNS |-> 0]
    /\ nRet = [b \in ISBNS |-> 0]
    /\ calls = 0
    /\ lastOp = NoOp
    /\ pc = [p \in Procs |-> "idle"]
    /\ args = [p \in Procs |-> NoArgs]
    /\ local = [p \in Procs |-> 0]
    /\ found = [b \in ISBNS |-> 0]
    /\ runs = 0

ReaderRate(username, isbn, score) ==
    calls < MaxRecommendCalls /\ Rate(username, isbn, score)

Recommend(username) ==
    /\ calls < MaxRecommendCalls
    /\ found' = recommend_books(store, username)
    /\ lastOp' = [NoOp EXCEPT !.op = "recommend_books",
                              !.username = username, !.ok = TRUE]
    /\ calls' = calls + 1
    /\ UNCHANGED <<store, runs, stock0, nOut, nRet, pc, args, local>>

NextRecommend ==
    \/ \E username \in READERS, isbn \in ISBNS, score \in SCORES :
          ReaderRate(username, isbn, score)
    \/ \E username \in READERS : Recommend(username)

\* ratings and recommendations, one call at a time
SpecRecommend == InitReaders /\ [][NextRecommend]_vars

\* ------------------------------------- checkouts against removals
\* The statements of concurrent check_out_book_for_user calls interleave
\* with remove_user and remove_book calls; a removal here runs its
\* statements with no statement of another caller in between.
NextConcRemove ==
    \/ \E p \in Procs :
          \/ \E isbn \in ISBNS, username \in USERS :
                CoGetBook(p, isbn, username)
          \/ CoGetUser(p)
          \/ CoMerge(p)
          \/ CoDecrement(p)
    \/ \E username \in USERS : RemoveUser(username)
    \/ \E isbn \in ISBNS : RemoveBook(isbn)

SpecConcRemove == Init /\ [][NextConcRemove]_vars

\* ----------------------------- author replacement, store rejecting
\* edit_book(isbn, 'authors', value) against a store that rejects the k-th
\* statement the call issues (CypherError; a rejected statement changes
\* nothing). acc is the call so far: the graph, the statements issued, and
\* how the rejection ended the call: "returned" when __run_session caught
\* it and edit_book returned False, "escaped" when the statement was run
\* with a bare session.run, which no except clause of edit_book covers.
Running(g, n) == [store |-> g, runs |-> n, end |-> "none", at |-> "none"]

Ended(acc, end, at) ==
    [store |-> acc.store, runs |-> acc.runs + 1, end |-> end, at |-> at]

\* the orphan loop: the count is a bare session.run, the DELETE goes
\* through __run_session
RECURSIVE clean_orphans_rejecting(_, _, _)
clean_orphans_rejecting(acc, rows, k) ==
    IF rows = <<>> \/ acc.end # "none" THEN acc
    ELSE IF acc.runs + 1 = k THEN Ended(acc, "escaped", "count")
    ELSE IF count_author_of(acc.store, Head(rows)) # 0
    THEN clean_orphans_rejecting(Running(acc.store, acc.runs + 1),
                                 Tail(rows), k)
    ELSE IF acc.runs + 2 = k
    THEN Ended(Running(acc.store, acc.runs + 1), "returned", "delete_author")
    ELSE clean_orphans_rejecting(
            Running(delete_author(acc.store, Head(rows)), acc.runs + 2),
            Tail(rows), k)

\* the link loop: every statement goes through __run_session
RECURSIVE link_authors_rejecting(_, _, _, _)
link_authors_rejecting(acc, isbn, authors, k) ==
    IF authors = <<>> \/ acc.end # "none" THEN acc
    ELSE IF acc.runs + 1 = k THEN Ended(acc, "returned", "link")
    ELSE link_authors_rejecting(
            Running(link_author_to_book(acc.store, isbn, Head(authors)),
                    acc.runs + 1),
            isbn, Tail(authors), k)

\* a store client that undoes the statements of a call it rejects
set_authors_rejecting_Rollback(g, isbn, value, k) ==
    LET whole == set_authors(g, isbn, value) IN
    IF k > whole.runs
    THEN [store |-> whole.store, ok |-> TRUE, msg |-> "edited book",
          score |-> 0, runs |-> whole.runs, end |-> "none", at |-> "none"]
    ELSE [store |-> g, ok |-> FALSE, msg |-> "CypherError", score |-> 0,
          runs |-> k, end |-> "returned", at |-> "link"]

set_authors_rejecting(g, isbn, value, k) ==
    LET removed == delete_author_of(g, isbn)
        linked ==
          IF k = 1 THEN Ended(Running(g, 0), "escaped", "delete_author_of")
          ELSE link_authors_rejecting(
                  clean_orphans_rejecting(Running(removed.store, 1),
                                          removed.rows, k),
                  isbn, value, k)
    IN  [store |-> linked.store, ok |-> linked.end = "none",
         msg |-> IF linked.end = "none" THEN "edited book" ELSE "CypherError",
         score |-> 0, runs |-> linked.runs, end |-> linked.end,
         at |-> linked.at]

EditAuthorsRejecting(isbn, authors, k) ==
    /\ calls < MaxFailCalls
    /\ LET r == set_authors_rejecting(store, isbn, authors, k) IN
         /\ store' = r.store
         /\ lastOp' = ReturnedEdit("edit_book", isbn, "", "authors", authors, r)
                        @@ [before |-> AuthorsOf(store, isbn),
                            end |-> r.end, at |-> r.at]
         /\ runs' = r.runs
    /\ calls' = calls + 1
    /\ UNCHANGED <<found, stock0, nOut, nRet, pc, args, local>>

CatalogAddBook(isbn, authors) ==
    calls < MaxFailCalls /\ AddBook(isbn, authors)

NextAuthorsFail ==
    \/ \E isbn \in ISBNS, authors \in AUTHOR_LISTS :
          CatalogAddBook(isbn, authors)
    \/ \E isbn \in ISBNS, authors \in AUTHOR_LISTS, k \in 1..MaxStatement :
          EditAuthorsRejecting(isbn, authors, k)

\* add_book and edit_book(authors) against a store that may reject one
\* statement of an edit
SpecAuthorsFail == InitEmpty /\ [][NextAuthorsFail]_vars

\* ------------------------------------------------ the whole engine
\* Both users and both books, and alice's rating of book 111.
InitRated ==
    /\ \E score \in SCORES :
         store =
           rate_book(
             add_book(
               add_book(
                 add_user(
                   add_user(EmptyGraph,
                            [username |-> "alice", name |-> <<"n">>,
                             phone |-> 1]).store,
                   [username |-> "bob", name |-> <<"n">>, phone |-> 1]).store,
                 [NewBook("111", <<"A", "B">>) EXCEPT !.quantity = MaxStock]).store,
               [NewBook("222", <<"B">>) EXCEPT !.quantity = MaxStock]).store,
             "alice", "111", score).store
    /\ stock0 = [b \in ISBNS |-> MaxStock]
    /\ nOut = [b \in ISBNS |-> 0]
    /\ nRet = [b \in ISBNS |-> 0]
    /\ calls = 0
    /\ lastOp = NoOp
    /\ pc = [p \in Procs |-> "idle"]
    /\ args = [p \in Procs |-> NoArgs]
    /\ local = [p \in Procs |-> 0]
    /\ found = [b \in ISBNS |-> 0]
    /\ runs = 0

\* A call of the engine returned r.
Engine(op, isbn, username, field, value, r) ==
    /\ store' = r.store
    /\ lastOp' = ReturnedEdit(op, isbn, username, field, value, r)
    /\ calls' = calls + 1
    /\ UNCHANGED <<found, runs, stock0, nOut, nRet, pc, args, local>>

EngineAddBook(isbn) ==
    /\ calls < MaxEngineCalls
    /\ Engine("add_book", isbn, "", "authors", <<"A">>,
              add_book(store, NewBook(isbn, <<"A">>)))

EngineAddUser(username) ==
    /\ calls < MaxEngineCalls
    /\ Engine("add_user", "", username, "", <<>>,
              add_user(store, [username |-> username, name |-> <<"n">>,
                               phone |-> 1]))

EngineEditBook(isbn, field, value) ==
    /\ calls < MaxEngineCalls
    /\ Engine("edit_book", isbn, "", field, value,
              edit_book(store, isbn, field, value))

EngineEditUser(username, field, value) ==
    /\ calls < MaxEngineCalls
    /\ Engine("edit_user", "", username, field, value,
              edit_user(store, username, field, value))

EngineCheckOut(isbn, username) ==
    /\ calls < MaxEngineCalls
    /\ Engine("check_out_book_for_user", isbn, username, "", <<>>,
              check_out_book_for_user(store, isbn, username))

EngineReturn(isbn, username) ==
    /\ calls < MaxEngineCalls
    /\ Engine("return_book_for_user", isbn, username, "", <<>>,
              return_book_for_user(store, isbn, username))

EngineRate(username, isbn, score) ==
    /\ calls < MaxEngineCalls
    /\ LET r == rate_book(store, username, isbn, score) IN
         /\ store' = r.store
         /\ lastOp' = Returned("rate_book", isbn, username, score, r)
    /\ calls' = calls + 1
    /\ UNCHANGED <<found, runs, stock0, nOut, nRet, pc, args, local>>

EngineRemoveBook(isbn) ==
    /\ calls < MaxEngineCalls
    /\ Engine("remove_book", isbn, "", "", <<>>, remove_book(store, isbn))

EngineRemoveUser(username) ==
    /\ calls < MaxEngineCalls
    /\ Engine("remove_user", "", username, "", <<>>,
              remove_user(store, username))

NextEngine ==
    \/ \E isbn \in ISBNS :
          \/ EngineAddBook(isbn)
          \/ EngineRemoveBook(isbn)
          \/ EngineEditBook(isbn, "quantity", <<<<"7">>>>)
          \/ EngineEditBook(isbn, "title", <<<<"a">>>>)
          \/ EngineEditBook(isbn, "authors", <<"C">>)
    \/ \E username \in USERS :
          \/ EngineAddUser(username)
          \/ EngineRemoveUser(username)
          \/ EngineEditUser(username, "phone", <<"7">>)
          \/ EngineEditUser(username, "name", <<"a">>)
    \/ \E isbn \in ISBNS, username \in USERS :
          \/ EngineCheckOut(isbn, username)
          \/ EngineReturn(isbn, username)
          \/ \E score \in SCORES : EngineRate(username, isbn, score)

\* the nine operations of the engine, one call at a time
SpecEngine == InitRated /\ [][NextEngine]_vars

\* ------------------------------------------------- sorting, finding
\* The rows of MATCH (book:Book) - [relation:Author_Of] - (author:Author):
\* one per relation, <<isbn, name, i>> for the i-th relation of the pair.
author_of_rows(g) ==
    UNION {{<<l[1], l[2], i>> : i \in 1..g.authorOf[l]} :
           l \in {k \in Links : k[1] \in g.books}}

\* The orders in which the store may return a set of rows.
Orderings(rows) ==
    {f \in [1..Cardinality(rows) -> rows] :
        \A i, j \in 1..Cardinality(rows) : i # j => f[i] # f[j]}

\* books.append((record['book'], record['author']))
Entries(f) == [i \in DOMAIN f |-> <<f[i][1], f[i][2]>>]

\* The place of an author's name in the order of strings.
NameRank(name) == CHOOSE i \in 1..3 : <<"A", "B", "C">>[i] = name

\* ORDER BY author.name / ORDER BY book.<field>
order_by(g, field, row) ==
    IF field = "authors" THEN NameRank(row[2]) ELSE g[field][row[1]]

\* a statement without its ORDER BY
sort_book_by_Unordered(g, field) ==
    {Entries(f) : f \in Orderings(author_of_rows(g))}

\* The lists sort_book_by may return: the rows in ascending order of the
\* key; the store orders rows of equal key as it likes.
sort_book_by(g, field) ==
    {Entries(f) : f \in
        {h \in Orderings(author_of_rows(g)) :
            \A i, j \in DOMAIN h :
                i < j => order_by(g, field, h[i]) <= order_by(g, field, h[j])}}

\* The lists find_book may return, in any order. For authors: WHERE
\* author.name IN value; otherwise one value, compared as a quoted string
\* with book.<field>, which no number stored in pages or quantity equals.
find_book(g, field, value) ==
    IF field = "authors"
    THEN {Entries(f) : f \in Orderings(
            {r \in author_of_rows(g) :
                \E i \in 1..Len(value) : value[i] = r[2]})}
    ELSE IF Len(value) = 1
    THEN IF field \in {"pages", "quantity"} THEN {<<>>}
         ELSE {Entries(f) : f \in Orderings(
                 {r \in author_of_rows(g) : g[field][r[1]] = value[1]})}
    ELSE {<<>>}

InitShelf ==
    /\ store = EmptyGraph
    /\ stock0 = [b \in ISBNS |-> 0]
    /\ nOut = [b \in ISBNS |-> 0]
    /\ nRet = [b \in ISBNS |-> 0]
    /\ calls = 0
    /\ lastOp = NoOp
    /\ pc = [p \in Procs |-> "idle"]
    /\ args = [p \in Procs |-> NoArgs]
    /\ local = [p \in Procs |-> 0]
    /\ found = <<>>
    /\ runs = 0

ShelfAddBook(isbn, authors, pages) ==
    /\ calls < MaxShelfCalls
    /\ LET r == add_book(store, [NewBook(isbn, authors) EXCEPT !.pages = pages])
       IN  /\ store' = r.store
           /\ lastOp' = ReturnedEdit("add_book", isbn, "", "authors", authors, r)
    /\ calls' = calls + 1
    /\ UNCHANGED <<found, runs, stock0, nOut, nRet, pc, args, local>>

ShelfEditAuthors(isbn, authors) ==
    /\ calls < MaxShelfCalls
    /\ LET r == edit_book(store, isbn, "authors", authors) IN
         /\ store' = r.store
         /\ lastOp' = ReturnedEdit("edit_book", isbn, "", "authors", authors, r)
         /\ runs' = r.runs
    /\ calls' = calls + 1
    /\ UNCHANGED <<found, stock0, nOut, nRet, pc, args, local>>

Listed(op, field, value) ==
    ReturnedEdit(op, "", "", field, value, [ok |-> TRUE, msg |-> ""])

Sort(field) ==
    /\ calls < MaxShelfCalls
    /\ \E books \in sort_book_by(store, field) : found' = books
    /\ lastOp' = Listed("sort_book_by", field, <<>>)
    /\ calls' = calls + 1
    /\ UNCHANGED <<store, runs, stock0, nOut, nRet, pc, args, local>>

Find(field, value) ==
    /\ calls < MaxShelfCalls
    /\ \E books \in find_book(store, field, value) : found' = books
    /\ lastOp' = Listed("find_book", field, value)
    /\ calls' = calls + 1
    /\ UNCHANGED <<store, runs, stock0, nOut, nRet, pc, args, local>>

NextShelf ==
    \/ \E isbn \in ISBNS, authors \in AUTHOR_LISTS, pages \in PAGES :
          ShelfAddBook(isbn, authors, pages)
    \/ \E isbn \in ISBNS : ShelfEditAuthors(isbn, <<>>)
    \/ \E field \in {"authors", "pages", "quantity"} : Sort(field)
    \/ \E authors \in AUTHOR_LISTS : Find("authors", authors)
    \/ \E value \in {<<<<"t">>>>, <<<<"a">>>>, <<<<"t">>, <<"a">>>>} :
          Find("title", value)
    \/ Find("pages", <<<<"1">>>>)

\* add_book, edit_book(authors), sort_book_by and find_book, one call at a
\* time
SpecShelf == InitShelf /\ [][NextShelf]_vars

\* ------------------------------------------------------------- claims
ThePair == <<lastOp.username, lastOp.isbn>>

\* The Borrows relations and the stock that the call lastOp' names must
\* leave alone: every other pair's relation and every other book's quantity.
OthersKept ==
    /\ \A q \in Pairs \ {<<lastOp'.username, lastOp'.isbn>>} :
          /\ q \in DOMAIN store.borrows <=> q \in DOMAIN store'.borrows
          /\ q \in DOMAIN store.borrows => store'.borrows[q] = store.borrows[q]
    /\ \A b \in store.books \ {lastOp'.isbn} :
          store'.quantity[b] = store.quantity[b]
    /\ store'.books = store.books /\ store'.users = store.users
    /\ store'.rates = store.rates

\* C1: with calls run one at a time, after N successful checkouts and M
\* successful returns of a book added with stock S, its quantity is
\* S - (N - M), which is S minus the sum of the Borrows quantities on the
\* book, and it is never negative.
C1_StockAccounting ==
    \A b \in store.books :
        /\ store.quantity[b] = stock0[b] - (nOut[b] - nRet[b])
        /\ store.quantity[b] = stock0[b] - Borrowed(store, b)
        /\ store.quantity[b] >= 0

\* Two users hold the book, one copy came back: N = 3, M = 1.
C1_Witness ==
    \E b \in store.books :
        /\ nOut[b] = 3 /\ nRet[b] = 1
        /\ stock0[b] = 2 /\ store.quantity[b] = 0
        /\ Cardinality({p \in DOMAIN store.borrows : p[2] = b}) = 2

\* C2: a successful checkout creates the pair's Borrows relation with
\* quantity 1 or adds 1 to it, and takes exactly 1 from the book's quantity;
\* a successful return at quantity 1 deletes the relation, at n > 1 sets it
\* to n - 1, and gives exactly 1 back to the book's quantity; nothing else
\* in the graph moves.
C2_LedgerMoves ==
    [][LET pr == <<lastOp'.username, lastOp'.isbn>>
           b == lastOp'.isbn
       IN
       /\ (lastOp'.op = "check_out_book_for_user" /\ lastOp'.ok) =>
            /\ pr \in DOMAIN store'.borrows
            /\ store'.borrows[pr] =
                 IF pr \in DOMAIN store.borrows THEN store.borrows[pr] + 1 ELSE 1
            /\ store'.quantity[b] = store.quantity[b] - 1
            /\ OthersKept
       /\ (lastOp'.op = "return_book_for_user" /\ lastOp'.ok) =>
            /\ pr \in DOMAIN store.borrows
            /\ IF store.borrows[pr] = 1
               THEN pr \notin DOMAIN store'.borrows
               ELSE /\ pr \in DOMAIN store'.borrows
                    /\ store'.borrows[pr] = store.borrows[pr] - 1
            /\ store'.quantity[b] = store.quantity[b] + 1
            /\ OthersKept
      ]_vars

\* The end of the scenario: stock 2, alice took two copies, one call was
\* rejected, and her second return deleted the relation.
C2_Witness ==
    /\ lastOp.op = "return_book_for_user" /\ lastOp.ok
    /\ lastOp.username = "alice" /\ lastOp.isbn = "111"
    /\ stock0["111"] = 2 /\ store.quantity["111"] = 2
    /\ nOut["111"] = 2 /\ nRet["111"] = 2 /\ calls = 5
    /\ DOMAIN store.borrows = {}

\* C3: a checkout of a book whose quantity is 0 or less fails with the
\* out-of-stock error and leaves the whole graph unchanged.
C3_OutOfStockRejected ==
    [][(/\ lastOp'.op = "check_out_book_for_user"
        /\ lastOp'.isbn \in store.books
        /\ store.quantity[lastOp'.isbn] <= 0)
       => /\ ~lastOp'.ok
          /\ lastOp'.msg = "book is out of stock"
          /\ store' = store
      ]_vars

\* A checkout was refused on a book whose stock the earlier checkouts used up.
C3_Witness ==
    /\ lastOp.op = "check_out_book_for_user"
    /\ lastOp.msg = "book is out of stock"
    /\ lastOp.username \in store.users
    /\ stock0[lastOp.isbn] = 2
    /\ store.quantity[lastOp.isbn] = 0
    /\ Borrowed(store, lastOp.isbn) = 2

\* C4: check_out_book_for_user fails when the book or the user does not
\* exist, and whenever it fails (book missing, out of stock, user missing)
\* the graph is as it was: no Borrows relation and no quantity changed.
C4_CheckOutFailsBeforeMutation ==
    [][lastOp'.op = "check_out_book_for_user" =>
         /\ (lastOp'.isbn \notin store.books \/ lastOp'.username \notin store.users)
              => ~lastOp'.ok
         /\ ~lastOp'.ok =>
              /\ store' = store
              /\ lastOp'.msg \in {"book does not exist", "book is out of stock",
                                  "user does not exist"}
      ]_vars

\* The user is missing while the book exists and is in stock: the checks on
\* the book passed and the call still changed nothing.
C4_Witness ==
    /\ lastOp.op = "check_out_book_for_user" /\ ~lastOp.ok
    /\ lastOp.msg = "user does not exist"
    /\ lastOp.isbn \in store.books
    /\ store.quantity[lastOp.isbn] > 0
    /\ store.users # {}

\* C5: a return for a pair that has no Borrows relation fails with the
\* not-borrowed error and leaves the whole graph unchanged.
C5_ReturnNotBorrowed ==
    [][(/\ lastOp'.op = "return_book_for_user"
        /\ <<lastOp'.username, lastOp'.isbn>> \notin DOMAIN store.borrows)
       => /\ ~lastOp'.ok
          /\ lastOp'.msg = "book was not checked out by user"
          /\ store' = store
      ]_vars

\* The return was refused while another user holds copies of the same book.
C5_Witness ==
    /\ lastOp.op = "return_book_for_user" /\ ~lastOp.ok
    /\ lastOp.msg = "book was not checked out by user"
    /\ lastOp.username \in store.users
    /\ \E p \in DOMAIN store.borrows :
          p[2] = lastOp.isbn /\ p[1] # lastOp.username

\* C6: the quantity of every book is >= 0 in every reachable state, also
\* when check_out_book_for_user calls on the same book interleave.
C6_QuantityNeverNegative ==
    \A b \in store.books : store.quantity[b] >= 0

\* C7: every Borrows relation carries a quantity >= 1 in every reachable
\* state, also when return_book_for_user calls on the same pair interleave.
C7_BorrowsAtLeastOne ==
    \A p \in DOMAIN store.borrows : store.borrows[p] >= 1

\* C8: the ledger update and the stock update of a checkout and of a return
\* are one atomic unit: no step changes the Borrows quantities on a book
\* without changing the book's quantity by the opposite amount.
C8_LedgerAndStockAtomic ==
    [][\A b \in store.books :
          Borrowed(store', b) - Borrowed(store, b)
            = store.quantity[b] - store'.quantity[b]
      ]_vars

\* C9: rate_book on a pair that already has a Rates relation fails,
\* reports the existing score, creates no second relation and leaves the
\* stored score (and the whole graph) unchanged, whatever score it is given.
C9_SecondRatingRejected ==
    [][(/\ lastOp'.op = "rate_book"
        /\ store.rates[<<lastOp'.username, lastOp'.isbn>>] # <<>>)
       => /\ ~lastOp'.ok
          /\ lastOp'.msg = "user has already rated book"
          /\ lastOp'.reported = store.rates[<<lastOp'.username, lastOp'.isbn>>][1]
          /\ store'.rates[<<lastOp'.username, lastOp'.isbn>>]
               = store.rates[<<lastOp'.username, lastOp'.isbn>>]
          /\ store' = store
      ]_vars

\* The second call passed another score than the stored one.
C9_Witness ==
    /\ lastOp.op = "rate_book" /\ ~lastOp.ok
    /\ lastOp.msg = "user has already rated book"
    /\ store.rates[ThePair] = <<lastOp.reported>>
    /\ lastOp.score # lastOp.reported

\* C10: every (user, book) pair has at most one Rates relation in every
\* reachable state, also when rate_book calls for the pair interleave.
C10_AtMostOneRating ==
    \A p \in Pairs : Len(store.rates[p]) <= 1

\* The Borrows and the Rates relations that touch a book or a user.
BorrowsOfBook(g, isbn) == {p \in DOMAIN g.borrows : p[2] = isbn}
RatesOfBook(g, isbn) == {p \in DOMAIN g.rates : p[2] = isbn /\ g.rates[p] # <<>>}
BorrowsOfUser(g, username) == {p \in DOMAIN g.borrows : p[1] = username}
RatesOfUser(g, username) ==
    {p \in DOMAIN g.rates : p[1] = username /\ g.rates[p] # <<>>}

\* The books an author is linked to.
BooksOf(g, name) == {b \in ISBNS : g.authorOf[<<b, name>>] > 0}

\* What a successful remove_book of lastOp'.isbn leaves: no Book node, no
\* AuthorOf relation of the book, no author without a relation, and every
\* other node and relation as it was.
BookRemoved ==
    LET b == lastOp'.isbn IN
    /\ lastOp'.ok
    /\ store'.books = store.books \ {b}
    /\ \A l \in Links :
          store'.authorOf[l] = IF l[1] = b THEN 0 ELSE store.authorOf[l]
    /\ store'.authors = {a \in store.authors : BooksOf(store', a) # {}}
    /\ \A c \in store'.books : store'.quantity[c] = store.quantity[c]
    /\ store'.users = store.users
    /\ store'.borrows = store.borrows /\ store'.rates = store.rates

\* C11 (as the code has it): remove_book fails and changes nothing while
\* any user holds a Borrows relation on the book; once the book has no
\* Borrows relation and no Rates relation, remove_book succeeds, deletes
\* the Book node and all its AuthorOf relations, and deletes every author
\* that is left with no AuthorOf relation.
C11_RemoveBookGuarded ==
    [][lastOp'.op = "remove_book" =>
         /\ BorrowsOfBook(store, lastOp'.isbn) # {} =>
              ~lastOp'.ok /\ store' = store
         /\ (/\ BorrowsOfBook(store, lastOp'.isbn) = {}
             /\ RatesOfBook(store, lastOp'.isbn) = {}) => BookRemoved
      ]_vars

\* C11 as stated: the removal succeeds as soon as every borrow on the book
\* has been returned.
C11_RemoveBookAfterReturns ==
    [][lastOp'.op = "remove_book" =>
         /\ BorrowsOfBook(store, lastOp'.isbn) # {} =>
              ~lastOp'.ok /\ store' = store
         /\ BorrowsOfBook(store, lastOp'.isbn) = {} => BookRemoved
      ]_vars

\* Book 111 by A and B was borrowed, returned and then removed: A is gone
\* with it, B stays as the author of book 222.
C11_Witness ==
    /\ lastOp.op = "remove_book" /\ lastOp.ok /\ lastOp.isbn = "111"
    /\ nOut["111"] = 1 /\ nRet["111"] = 1
    /\ "111" \notin store.books
    /\ "A" \notin store.authors /\ "B" \in store.authors
    /\ store.authorOf[<<"111", "B">>] = 0 /\ store.authorOf[<<"222", "B">>] = 1

\* C12 (as the code has it): Rates relations block deletion: remove_book
\* on a book that has Rates relations but no Borrows relation, and
\* remove_user on a user that has Rates relations but no Borrows relation,
\* are rejected by the deletion guard and change nothing.
C12_RatesBlockDeletion ==
    [][/\ (/\ lastOp'.op = "remove_book"
           /\ BorrowsOfBook(store, lastOp'.isbn) = {}
           /\ RatesOfBook(store, lastOp'.isbn) # {})
          => /\ ~lastOp'.ok
             /\ lastOp'.msg = "book is involved in user relations"
             /\ store' = store
       /\ (/\ lastOp'.op = "remove_user"
           /\ BorrowsOfUser(store, lastOp'.username) = {}
           /\ RatesOfUser(store, lastOp'.username) # {})
          => /\ ~lastOp'.ok
             /\ lastOp'.msg = "user is involved in book relations"
             /\ store' = store
      ]_vars

\* C12 as stated: such a removal is not rejected by the deletion guard.
C12_RatesDoNotBlock ==
    [][/\ (/\ lastOp'.op = "remove_book"
           /\ BorrowsOfBook(store, lastOp'.isbn) = {}
           /\ RatesOfBook(store, lastOp'.isbn) # {})
          => lastOp'.msg # "book is involved in user relations"
       /\ (/\ lastOp'.op = "remove_user"
           /\ BorrowsOfUser(store, lastOp'.username) = {}
           /\ RatesOfUser(store, lastOp'.username) # {})
          => lastOp'.msg # "user is involved in book relations"
      ]_vars

\* A user who rated a book and holds none was refused and is still there.
C12_Witness ==
    /\ lastOp.op = "remove_user" /\ ~lastOp.ok
    /\ BorrowsOfUser(store, lastOp.username) = {}
    /\ \E b \in store.books :
          /\ <<lastOp.username, b>> \in RatesOfBook(store, b)
          /\ BorrowsOfBook(store, b) = {}
    /\ lastOp.username \in store.users
    /\ calls = 3

\* C13 (as the code has it): remove_user fails and leaves the User node in
\* place while the user participates in any Borrows or Rates relation; when
\* the user has neither it deletes the User node and reports success.
C13_RemoveUserGuarded ==
    [][lastOp'.op = "remove_user" =>
         IF \/ BorrowsOfUser(store, lastOp'.username) # {}
            \/ RatesOfUser(store, lastOp'.username) # {}
         THEN /\ ~lastOp'.ok
              /\ lastOp'.username \in store'.users
              /\ store' = store
         ELSE /\ lastOp'.ok
              /\ store'.users = store.users \ {lastOp'.username}
              /\ store'.books = store.books
              /\ store'.borrows = store.borrows /\ store'.rates = store.rates
              /\ store'.authors = store.authors
              /\ store'.authorOf = store.authorOf
      ]_vars

\* C13 as stated: only a Borrows relation keeps the user from deletion.
C13_RemoveUserBorrowsOnly ==
    [][lastOp'.op = "remove_user" =>
         IF BorrowsOfUser(store, lastOp'.username) # {}
         THEN ~lastOp'.ok /\ lastOp'.username \in store'.users
         ELSE lastOp'.ok /\ lastOp'.username \notin store'.users
      ]_vars

\* A user who borrowed and returned a book was deleted; the other user
\* is still there.
C13_Witness ==
    /\ lastOp.op = "remove_user" /\ lastOp.ok
    /\ lastOp.username \notin store.users
    /\ store.users # {}
    /\ \E b \in ISBNS : nOut[b] = 1 /\ nRet[b] = 1
    /\ DOMAIN store.borrows = {}

\* C14: edit_book(isbn, 'authors', names) on a book of the store replaces
\* the book's author set: afterwards the book is linked to exactly the
\* authors in names; every previous author that has no AuthorOf relation
\* left is deleted, previous authors that are still linked to some book are
\* retained, and the names that did not exist are created; the other books
\* keep their authors.
C14_AuthorsReplaced ==
    [][(/\ lastOp'.op = "edit_book" /\ lastOp'.field = "authors"
        /\ lastOp'.isbn \in store.books)
       => LET b == lastOp'.isbn
              names == {lastOp'.value[i] : i \in 1..Len(lastOp'.value)}
              previous == {a \in AUTHORS : store.authorOf[<<b, a>>] > 0}
          IN
          /\ lastOp'.ok
          /\ {a \in AUTHORS : store'.authorOf[<<b, a>>] > 0} = names
          /\ \A a \in previous :
                a \in store'.authors <=> BooksOf(store', a) # {}
          /\ names \subseteq store'.authors
          /\ store'.authors \subseteq store.authors \cup names
          /\ \A a \in store.authors \ previous : a \in store'.authors
          /\ \A l \in Links : l[1] # b => store'.authorOf[l] = store.authorOf[l]
          /\ store'.books = store.books
      ]_vars

\* The scenario: the only book, by A and B, was given the authors B and C:
\* A is deleted, B is there, C was created.
C14_Witness ==
    /\ lastOp.op = "edit_book" /\ lastOp.field = "authors" /\ lastOp.ok
    /\ lastOp.before = {"A", "B"} /\ lastOp.value = <<"B", "C">>
    /\ store.books = {lastOp.isbn}
    /\ store.authors = {"B", "C"}
    /\ AuthorsOf(store, lastOp.isbn) = {"B", "C"}

\* C15: after any sequence of completed add_book, edit_book(authors) and
\* remove_book operations run one at a time, an Author node exists if and
\* only if it has at least one AuthorOf relation to a book.
C15_AuthorIffLinked ==
    \A a \in AUTHORS : a \in store.authors <=> BooksOf(store, a) # {}

\* remove_book took the last book of A and left B, who wrote another one.
C15_Witness ==
    /\ lastOp.op = "remove_book" /\ lastOp.ok
    /\ lastOp.before = {"A", "B"}
    /\ lastOp.isbn \notin store.books
    /\ store.authors = {"B"}
    /\ \E b \in store.books : AuthorsOf(store, b) = {"B"}

\* C16: edit_book with field 'authors' and an isbn absent from the store
\* fails instead of reporting success.
C16_AbsentBookRejected ==
    [][(/\ lastOp'.op = "edit_book" /\ lastOp'.field = "authors"
        /\ lastOp'.isbn \notin store.books)
       => ~lastOp'.ok
      ]_vars

\* C17: passing a name twice in one author list to add_book or edit_book
\* leaves exactly one AuthorOf relation between that author and the book.
C17_OneRelationPerLink ==
    \A l \in Links : store.authorOf[l] <= 1

\* The texts of TEXTS that spell an integer, and those that spell a
\* negative one.
IntegerTexts == {<<"0">>, <<"7">>, <<"-", "1">>, <<"1", "2">>}
NegativeTexts == {<<"-", "1">>}

\* The malformed values of edit_book: more than one value for a field other
\* than authors, or one value for quantity or pages that is no integer or
\* is negative.
MalformedBookValue(field, value) ==
    /\ field # "authors"
    /\ \/ Len(value) > 1
       \/ /\ Len(value) = 1
          /\ field \in {"quantity", "pages"}
          /\ value[1] \notin IntegerTexts \/ value[1] \in NegativeTexts

\* C19: edit_book with a malformed value, and edit_user with a non-integer
\* phone, return failure before any store call is issued, so the store is
\* unchanged.
C19_MalformedRejectedEarly ==
    [][/\ (/\ lastOp'.op = "edit_book"
           /\ MalformedBookValue(lastOp'.field, lastOp'.value))
          => ~lastOp'.ok /\ runs' = 0 /\ store' = store
       /\ (/\ lastOp'.op = "edit_user" /\ lastOp'.field = "phone"
           /\ lastOp'.value \notin IntegerTexts)
          => ~lastOp'.ok /\ runs' = 0 /\ store' = store
      ]_vars

\* pages was set to 12, then a negative value was refused and the 12 is
\* still there.
C19_Witness ==
    /\ lastOp.op = "edit_book" /\ lastOp.field = "pages"
    /\ lastOp.value = <<<<"-", "1">>>>
    /\ ~lastOp.ok /\ runs = 0 /\ calls = 2
    /\ lastOp.isbn \in store.books /\ store.pages[lastOp.isbn] = 12

\* C20: a book's pages is always a positive integer: edit_book writes a
\* pages value only when it is greater than 0.
C20_PagesPositive ==
    \A b \in store.books : store.pages[b] > 0

\* The score a reader gave a book (0: none), when no pair is rated twice.
ScoreOf(g, reader, isbn) ==
    IF g.rates[<<reader, isbn>>] = <<>> THEN 0 ELSE g.rates[<<reader, isbn>>][1]

\* The pairs <<b1, friend>> that lead reader u to the book b2: u rated b1,
\* another reader friend gave b1 the same score, and friend gave b2 a score
\* of 3 or more.
Leads(g, u, b2) ==
    {t \in ISBNS \X (READERS \ {u}) :
        /\ ScoreOf(g, u, t[1]) # 0
        /\ ScoreOf(g, t[2], t[1]) = ScoreOf(g, u, t[1])
        /\ ScoreOf(g, t[2], b2) >= 3}

\* C18 (as the code has it): recommend_books(u) returns, without
\* deduplication, one entry b2 for every triple (b1, friend, b2) such that
\* u rated b1, another user friend rated b1 with exactly the same score as
\* u, and friend rated a book b2 other than b1 with score >= 3; b2 may be a
\* book u rated, and no other book is returned.
C18_OneEntryPerTriple ==
    lastOp.op = "recommend_books" =>
        \A b2 \in ISBNS :
            found[b2] =
              Cardinality({t \in Leads(store, lastOp.username, b2) : t[1] # b2})

\* C18 as stated: b2 ranges over all books friend rated with score >= 3,
\* the book b1 included.
C18_SharedBookIncluded ==
    lastOp.op = "recommend_books" =>
        \A b2 \in ISBNS :
            found[b2] = Cardinality(Leads(store, lastOp.username, b2))

\* Two friends gave book 111 the score of the caller and both liked book
\* 222: 222 is returned twice, and 111, which all three rated 4, never.
C18_Witness ==
    /\ lastOp.op = "recommend_books"
    /\ found["222"] = 2 /\ found["111"] = 0
    /\ \A r \in READERS : ScoreOf(store, r, "111") = 4
    /\ \A r \in READERS \ {lastOp.username} : ScoreOf(store, r, "222") >= 3

C24_StockConservedWhenIdle ==
    (\A p \in Procs : pc[p] = "idle") =>
        \A b \in store.books :
            store.quantity[b] + Borrowed(store, b) = stock0[b]

\* C25: whenever check_out_book_for_user reports success, a Borrows
\* relation for that (user, book) pair exists afterwards and the book's
\* quantity was decremented exactly once together with it, also when a
\* remove_user or remove_book call ran between the checkout's existence
\* checks and its two writes.
C25_SuccessLeavesBorrows ==
    [][(/\ lastOp'.op = "check_out_book_for_user" /\ lastOp'.ok
        /\ nOut' # nOut)
       => /\ <<lastOp'.username, lastOp'.isbn>> \in DOMAIN store'.borrows
          /\ lastOp'.isbn \in store.books
          /\ store'.quantity[lastOp'.isbn] = store.quantity[lastOp'.isbn] - 1
      ]_vars

\* C21: every engine operation ends with a success/failure result for
\* every outcome of its store calls: when the store rejects a statement
\* the operation issues, the operation returns failure and never lets the
\* store error escape as an exception.
C21_NoStoreErrorEscapes ==
    [][lastOp'.op = "edit_book" => lastOp'.end # "escaped"]_vars

\* The number of times a name is among the first n names of a list.
Times(names, n, a) == Cardinality({i \in 1..n : names[i] = a})

\* C23: when a store write is rejected in the middle of an author
\* replacement (the DELETE of an orphaned author or the link of a new
\* author, which follow the removal of the book's AuthorOf relations),
\* edit_book reports failure and the effects of the steps already executed
\* stay: the removed AuthorOf relations and the deleted authors are not
\* restored, and the authors already linked stay linked.
C23_NoRollback ==
    [][(/\ lastOp'.op = "edit_book"
        /\ lastOp'.at \in {"delete_author", "link"})
       => LET b == lastOp'.isbn
              names == lastOp'.value
              previous == AuthorsOf(store, b)
          IN
          /\ ~lastOp'.ok /\ lastOp'.end = "returned"
          /\ lastOp'.msg = "CypherError"
          /\ \E n \in 0..Len(names) :
                /\ lastOp'.at = "delete_author" => n = 0
                /\ lastOp'.at = "link" => n < Len(names)
                /\ \A a \in AUTHORS :
                      store'.authorOf[<<b, a>>] =
                        IF b \in store.books THEN Times(names, n, a) ELSE 0
                /\ b \in store.books =>
                      \A i \in 1..n : names[i] \in store'.authors
          /\ \A a \in store.authors \ store'.authors :
                a \in previous /\ BooksOf(store', a) = {}
          /\ lastOp'.at = "link" =>
                \A a \in previous :
                    a \in store'.authors <=> BooksOf(store', a) # {}
          /\ \A l \in Links : l[1] # b => store'.authorOf[l] = store.authorOf[l]
          /\ store'.books = store.books
      ]_vars

\* The only book, by A and B, was to get the authors B and C, and the store
\* rejected the link of C: the call failed, A is deleted and not linked any
\* more, B is linked again, C does not exist.
C23_Witness ==
    /\ lastOp.op = "edit_book" /\ ~lastOp.ok /\ lastOp.at = "link"
    /\ lastOp.before = {"A", "B"} /\ lastOp.value = <<"B", "C">>
    /\ store.books = {lastOp.isbn}
    /\ store.authors = {"B"}
    /\ AuthorsOf(store, lastOp.isbn) = {"B"}

\* C22: a Rates relation is immutable once created: no operation of the
\* engine changes the score of an existing Rates relation (or deletes the
\* relation), and a second rate_book on the pair never overwrites it.
C22_RatesImmutable ==
    [][\A p \in DOMAIN store.rates :
          store.rates[p] # <<>> => store'.rates[p] = store.rates[p]
      ]_vars

\* After the title of the rated book was edited, a second rate_book of the
\* pair with another score was refused and the first score is still there.
C22_Witness ==
    /\ lastOp.op = "rate_book" /\ ~lastOp.ok
    /\ store.rates[<<lastOp.username, lastOp.isbn>>] = <<lastOp.reported>>
    /\ lastOp.score # lastOp.reported
    /\ store.title[lastOp.isbn] = <<"a">>
    /\ calls = 2

\* The number of entries of a list for a book and an author.
EntriesFor(list, isbn, name) ==
    Cardinality({i \in 1..Len(list) : list[i] = <<isbn, name>>})

\* The AuthorOf relations between a book of the store and an author.
RelationsOf(g, isbn, name) ==
    IF isbn \in g.books THEN g.authorOf[<<isbn, name>>] ELSE 0

\* C27: sort_book_by and find_book return one entry per (book, AuthorOf
\* relation) pair: a book with k authors appears k times and a book with no
\* AuthorOf relation does not appear at all, so the result of sort_book_by
\* covers exactly the books that have at least one author, in ascending
\* order of the sort field.
C27_OneEntryPerRelation ==
    /\ lastOp.op = "sort_book_by" =>
         /\ \A b \in ISBNS, a \in AUTHORS :
               EntriesFor(found, b, a) = RelationsOf(store, b, a)
         /\ {found[i][1] : i \in 1..Len(found)}
              = {b \in store.books : AuthorsOf(store, b) # {}}
         /\ lastOp.field = "pages" =>
               \A i \in 1..Len(found) - 1 :
                   store.pages[found[i][1]] <= store.pages[found[i + 1][1]]
         /\ lastOp.field = "quantity" =>
               \A i \in 1..Len(found) - 1 :
                   store.quantity[found[i][1]] <= store.quantity[found[i + 1][1]]
         /\ lastOp.field = "authors" =>
               \A i \in 1..Len(found) - 1 :
                   \/ found[i][2] = found[i + 1][2]
                   \/ <<found[i][2], found[i + 1][2]>>
                        \in {<<"A", "B">>, <<"A", "C">>, <<"B", "C">>}
    /\ (lastOp.op = "find_book" /\ lastOp.field = "authors") =>
         \A b \in ISBNS, a \in AUTHORS :
             EntriesFor(found, b, a) =
               IF \E i \in 1..Len(lastOp.value) : lastOp.value[i] = a
               THEN RelationsOf(store, b, a) ELSE 0
    /\ (lastOp.op = "find_book" /\ lastOp.field = "title"
        /\ Len(lastOp.value) = 1) =>
         \A b \in ISBNS, a \in AUTHORS :
             EntriesFor(found, b, a) =
               IF b \in store.books /\ store.title[b] = lastOp.value[1]
               THEN RelationsOf(store, b, a) ELSE 0

\* Two books of the store: the one with two authors is listed twice, the
\* one without author is not listed.
C27_Witness ==
    /\ lastOp.op = "sort_book_by"
    /\ Cardinality(store.books) = 2
    /\ Len(found) = 2
    /\ found[1][1] = found[2][1] /\ found[1][2] # found[2][2]
    /\ \E b \in store.books : AuthorsOf(store, b) = {}

====
